---------------------------- MODULE Spec2Model ----------------------------
(***************************************************************************)
(* Model of tools/logo_builder/logo_quantize.py (perceptual quantization   *)
(* of logos to the HUB75 4-bit hardware palette) and of the RGB565 packing *)
(* of tools/logo_builder/build_logos.py.                                   *)
(*                                                                         *)
(* Floating point values of the source are modelled in fixed point: reals  *)
(* in [0, 2) are integers scaled by Scale = 2^20, CIELAB coordinates are   *)
(* integers in hundredths of a CIELAB unit.                                *)
(***************************************************************************)
EXTENDS Integers, Sequences, FiniteSets, TLC

(***************************************************************************)
(* Fixed-point arithmetic (numpy float64 in the source).                   *)
(***************************************************************************)
Scale == 2^20
Half == 2^10

\* a * b for fixed-point a, b >= 0, without leaving 32 bits
Mul(a, b) ==
  (a \div Half) * (b \div Half)
    + ((a \div Half) * (b % Half) + (a % Half) * (b \div Half)) \div Half
    + ((a % Half) * (b % Half)) \div Scale

\* a / b for fixed-point 0 <= a <= 1 and b > 0, without leaving 32 bits
Div(a, b) == ((a * Half) \div b) * Half + (((a * Half) % b) * Half) \div b

\* the first k hexadecimal digits of r / d, for 0 <= r < d (long division,
\* 16 * r staying within 32 bits)
RECURSIVE RatioBits(_, _, _)
RatioBits(r, d, k) ==
  IF k = 0 THEN 0
  ELSE LET t == 16 * r
       IN  (t \div d) * 16^(k - 1) + RatioBits(t % d, d, k - 1)

\* n / d as a fixed-point number, for integers n >= 0, d > 0
Ratio(n, d) == (n \div d) * Scale + RatioBits(n % d, d, 5)

\* x ** n for an integer n >= 1
RECURSIVE Pow(_, _)
Pow(x, n) == IF n = 1 THEN x ELSE Mul(x, Pow(x, n - 1))

\* Newton's iteration for r ** n = x from r, which is not below the root
RECURSIVE Newton(_, _, _)
Newton(n, x, r) ==
  LET next == ((n - 1) * r + Div(x, Pow(r, n - 1))) \div n
  IN  IF next >= r THEN r ELSE Newton(n, x, next)

\* x ** (1/n) for 0 <= x <= 1 and an integer n >= 2
Root(n, x) == IF x = 0 THEN 0 ELSE Newton(n, x, Scale)

\* round to the nearest integer of the fixed-point x >= 0
Round(x) == (x + Scale \div 2) \div Scale

\* n / d rounded to the nearest integer, for any sign of n, d > 0
DivRound(n, d) == (2 * n + d) \div (2 * d)

Abs(x) == IF x < 0 THEN -x ELSE x

\* the function f with every value computed (a list or an array of the source)
Table(f) == f @@ << >>

(***************************************************************************)
(* CIE 1931 LUT                                                            *)
(***************************************************************************)
\* lut[i] of _generate_cie_lut(max_out), L = i * 100 / 255
cie_level(i, max_out) ==
  LET Y == IF i * 100 <= 8 * 255
             THEN Ratio(i * 1000, 255 * 9023)
             ELSE Pow(Ratio(i * 100 + 16 * 255, 116 * 255), 3)
      v == Round(max_out * Y)
  IN  IF v < max_out THEN v ELSE max_out

generate_cie_lut(max_out) == Table([i \in 0..255 |-> cie_level(i, max_out)])

CIE_LUT_4BIT == generate_cie_lut(15)

(***************************************************************************)
(* Colour conversions                                                      *)
(***************************************************************************)
\* the decimal n / 10^6 as a fixed-point number
Micro(n) == Ratio(n, 1000000)

\* the constants of _linear_to_srgb
srgb_cut == Ratio(31308, 10000000)
srgb_slope == Ratio(1292, 100)
srgb_gain == Ratio(1055, 1000)
srgb_offset == Micro(55000)

\* _linear_to_srgb: np.where(linear <= 0.0031308, linear * 12.92,
\*                           1.055 * max(linear, 1e-10) ** (1 / 2.4) - 0.055)
linear_to_srgb(linear) ==
  IF linear <= srgb_cut
    THEN Mul(linear, srgb_slope)
    ELSE Mul(srgb_gain, Pow(Root(3, Root(4, linear)), 5)) - srgb_offset

\* np.clip(x, 0, 1)
clip01(x) == IF x < 0 THEN 0 ELSE IF x > Scale THEN Scale ELSE x

\* the constants of skimage's rgb2xyz and xyz2lab (D65, 2 degree observer)
xyz_cut == Micro(40450)
xyz_inv_gain == Ratio(1000, 1055)
xyz_inv_slope == Ratio(100, 1292)
xyz_from_rgb ==
  << <<Micro(412453), Micro(357580), Micro(180423)>>,
     <<Micro(212671), Micro(715160), Micro(72169)>>,
     <<Micro(19334), Micro(119193), Micro(950227)>> >>
inv_white_x == Ratio(100000, 95047)
inv_white_z == Ratio(100000, 108883)
lab_cut == Micro(8856)
lab_slope == Ratio(7787, 1000)
lab_shift == Ratio(16, 116)

\* rgb2xyz, per channel: ((c + 0.055) / 1.055) ** 2.4 above 0.04045, c / 12.92 below
srgb_to_linear(c) ==
  IF c > xyz_cut
    THEN Pow(Root(5, Mul(c + srgb_offset, xyz_inv_gain)), 12)
    ELSE Mul(c, xyz_inv_slope)

\* xyz2lab, per channel: cbrt(t) above 0.008856, 7.787 t + 16 / 116 below
lab_f(t) ==
  IF t > lab_cut
    THEN Root(3, IF t > Scale THEN Scale ELSE t)
    ELSE Mul(lab_slope, t) + lab_shift

\* a fixed-point number of CIELAB units in hundredths of a unit
Centi(x) == DivRound((x \div 4) * 25, 2^16)

\* rgb2xyz after the companding, then xyz2lab: linear <<r, g, b>> to
\* <<L, a, b>> in hundredths
linear_to_lab(lin) ==
  LET M == xyz_from_rgb
      X == Mul(M[1][1], lin[1]) + Mul(M[1][2], lin[2]) + Mul(M[1][3], lin[3])
      Y == Mul(M[2][1], lin[1]) + Mul(M[2][2], lin[2]) + Mul(M[2][3], lin[3])
      Z == Mul(M[3][1], lin[1]) + Mul(M[3][2], lin[2]) + Mul(M[3][3], lin[3])
      fx == lab_f(Mul(X, inv_white_x))
      fy == lab_f(Y)
      fz == lab_f(Mul(Z, inv_white_z))
  IN  << Centi(116 * fy - 16 * Scale),
         Centi(500 * (fx - fy)),
         Centi(200 * (fy - fz)) >>

\* the linear light of an 8-bit sRGB channel value v: v / 255.0, companding removed
channel_linear == Table([v \in 0..255 |-> srgb_to_linear(Ratio(v, 255))])

\* np.array(img_rgb, dtype=np.float64) / 255.0 followed by rgb2lab, one pixel
pixel_lab(px) ==
  linear_to_lab(<<channel_linear[px[1]], channel_linear[px[2]], channel_linear[px[3]]>>)

(***************************************************************************)
(* Hardware palette builder                                                *)
(***************************************************************************)
\* expand5 with the right shift by the width of the field: (v5 << 3) | (v5 >> 5)
expand5_shift_by_width(v5) == v5 * 8 + v5 \div 32

\* ESP32 color565to888: (v5 << 3) | (v5 >> 2) and (v6 << 2) | (v6 >> 4); the
\* shifted value has its low bits clear, so | adds
expand5(v5) == v5 * 8 + v5 \div 4
expand6(v6) == v6 * 4 + v6 \div 16

\* seen_entry with the fields shifted but their high bits not replicated
seen_entry_truncated(n) ==
  <<CIE_LUT_4BIT[(n \div (64 * 32)) * 8], CIE_LUT_4BIT[((n \div 32) % 64) * 4],
    CIE_LUT_4BIT[(n % 32) * 8]>>
  :> <<(n \div (64 * 32)) * 8, ((n \div 32) % 64) * 4, (n % 32) * 8>>

\* the key and the value of the loop body at iteration n of the three nested
\* loops (for r5 in range(32): for g6 in range(64): for b5 in range(32)),
\* n = r5 * 64 * 32 + g6 * 32 + b5
seen_entry(n) ==
  LET r8 == expand5(n \div (64 * 32))
      g8 == expand6((n \div 32) % 64)
      b8 == expand5(n % 32)
  IN  <<CIE_LUT_4BIT[r8], CIE_LUT_4BIT[g8], CIE_LUT_4BIT[b8]>> :> <<r8, g8, b8>>

\* seen_range without the test "if key not in seen": the last iteration that
\* produces a key sets its value
RECURSIVE seen_range_last_wins(_, _)
seen_range_last_wins(lo, hi) ==
  IF lo = hi THEN seen_entry(lo)
  ELSE LET mid == (lo + hi) \div 2
       IN  seen_range_last_wins(mid + 1, hi) @@ seen_range_last_wins(lo, mid)

\* seen after iterations lo..hi: a key keeps the value of the first iteration
\* that produced it (if key not in seen: seen[key] = (r8, g8, b8))
RECURSIVE seen_range(_, _)
seen_range(lo, hi) ==
  IF lo = hi THEN seen_entry(lo)
  ELSE LET mid == (lo + hi) \div 2
       IN  seen_range(lo, mid) @@ seen_range(mid + 1, hi)

\* seen after the three loops: CIE triple -> representative (r8, g8, b8)
seen_all == seen_range(0, 32 * 64 * 32 - 1)

\* sorted(seen.keys()): the CIE triples in ascending lexicographic order
sorted_keys ==
  SelectSeq([c \in 1..(16 * 16 * 16) |->
               <<(c - 1) \div 256, ((c - 1) \div 16) % 16, (c - 1) % 16>>],
            LAMBDA k : k \in DOMAIN seen_all)

\* palette_input: the representative RGB888 of every key, in key order
palette_input_of == Table([i \in 1..Len(sorted_keys) |-> seen_all[sorted_keys[i]]])

\* the linear light rgb2lab sees for CIE level k: level / 15 as linear light,
\* np.clip(_linear_to_srgb(.), 0, 1), then the companding removed by rgb2lab
level_linear ==
  Table([k \in 0..15 |-> srgb_to_linear(clip01(linear_to_srgb(Ratio(k, 15))))])

\* palette_lab: CIELAB of the perceived output of every key
palette_lab_of ==
  Table([i \in 1..Len(sorted_keys) |->
           linear_to_lab(<<level_linear[sorted_keys[i][1]],
                           level_linear[sorted_keys[i][2]],
                           level_linear[sorted_keys[i][3]]>>)])

(***************************************************************************)
(* KDTree(lab) and tree.query: exact nearest neighbour in CIELAB.  The     *)
(* index keeps the bounding box of every run of 16 consecutive points      *)
(* (leaves) and of every run of 16 consecutive leaves (nodes); a query     *)
(* skips a box that cannot hold a point nearer than the best one found.    *)
(* Of several points at the same distance the first in palette order is    *)
(* returned.                                                               *)
(***************************************************************************)
Min2(x, y) == IF x <= y THEN x ELSE y
Max2(x, y) == IF x >= y THEN x ELSE y
SetMin(S) == CHOOSE m \in S : \A x \in S : m <= x
SetMax(S) == CHOOSE m \in S : \A x \in S : m >= x
CeilDiv(n, d) == (n + d - 1) \div d

\* the bounding box <<min, max>> (two CIELAB points) of points lo..hi
box_of_points(pts, lo, hi) ==
  << Table([c \in 1..3 |-> SetMin({pts[i][c] : i \in lo..hi})]),
     Table([c \in 1..3 |-> SetMax({pts[i][c] : i \in lo..hi})]) >>

\* the bounding box of boxes lo..hi
box_of_boxes(boxes, lo, hi) ==
  << Table([c \in 1..3 |-> SetMin({boxes[j][1][c] : j \in lo..hi})]),
     Table([c \in 1..3 |-> SetMax({boxes[j][2][c] : j \in lo..hi})]) >>

\* KDTree(lab)
KDTree(pts) ==
  LET n == Len(pts)
      nleaf == CeilDiv(n, 16)
      leaf == Table([j \in 1..nleaf |->
                 box_of_points(pts, 16 * (j - 1) + 1, Min2(16 * j, n))])
      nnode == CeilDiv(nleaf, 16)
      node == Table([k \in 1..nnode |->
                 box_of_boxes(leaf, 16 * (k - 1) + 1, Min2(16 * k, nleaf))])
  IN  [data |-> pts, n |-> n, leaf |-> leaf, nleaf |-> nleaf, node |-> node,
       nnode |-> nnode]

Sq(x) == x * x

\* squared Euclidean distance of two CIELAB points
dist2(p, q) == Sq(p[1] - q[1]) + Sq(p[2] - q[2]) + Sq(p[3] - q[3])

\* distance of x to the interval lo..hi
Gap(lo, hi, x) == IF x < lo THEN lo - x ELSE IF x > hi THEN x - hi ELSE 0

\* squared distance of q to the nearest point of a box
box_dist2(box, q) ==
  Sq(Gap(box[1][1], box[2][1], q[1])) + Sq(Gap(box[1][2], box[2][2], q[2]))
    + Sq(Gap(box[1][3], box[2][3], q[3]))

\* the indices of the points of leaf j, and of the leaves of node k
leaf_points(tree, j) == (16 * (j - 1) + 1)..Min2(16 * j, tree.n)
node_leaves(tree, k) == (16 * (k - 1) + 1)..Min2(16 * k, tree.nleaf)

\* the squared distance of q to the nearest point of leaf j
leaf_dist2(tree, q, j) == SetMin({dist2(tree.data[i], q) : i \in leaf_points(tree, j)})

\* the leaf of node k whose box is nearest to q
nearest_leaf(tree, q, k) ==
  LET gap == Table([j \in node_leaves(tree, k) |-> box_dist2(tree.leaf[j], q)])
      least == SetMin({gap[j] : j \in DOMAIN gap})
  IN  SetMin({j \in DOMAIN gap : gap[j] = least})

\* a bound on the distance of q to the palette: the nearest point of the
\* nearest leaf of every node
query_bound(tree, q) ==
  SetMin({leaf_dist2(tree, q, nearest_leaf(tree, q, k)) : k \in 1..tree.nnode})

\* the leaves whose box is within bound of q, in the nodes whose box is
scan_leaves(tree, q, bound) ==
  LET nodes == {k \in 1..tree.nnode : box_dist2(tree.node[k], q) <= bound}
  IN  {j \in UNION {node_leaves(tree, k) : k \in nodes} :
         box_dist2(tree.leaf[j], q) <= bound}

\* tree.query(q): the index of the palette point nearest to q.  Boxes
\* farther than a first bound are skipped; of the points of the remaining
\* leaves the first in palette order at the least distance is returned.
tree_query(tree, q) ==
  LET leaves == scan_leaves(tree, q, query_bound(tree, q))
      dist == Table([i \in UNION {leaf_points(tree, j) : j \in leaves} |->
                       dist2(tree.data[i], q)])
      least == SetMin({dist[i] : i \in DOMAIN dist})
  IN  SetMin({i \in DOMAIN dist : dist[i] = least})

\* _build_hardware_palette(): (palette_input, palette_lab, tree)
palette_tuple(palette_input, palette_lab) ==
  [input |-> palette_input, lab |-> palette_lab, tree |-> KDTree(palette_lab)]

build_hardware_palette == palette_tuple(palette_input_of, palette_lab_of)

(***************************************************************************)
(* The bounded inputs: colours                                             *)
(***************************************************************************)
MaxPixels == 4
GridSteps == 5

BLACK == <<0, 0, 0>>
WHITE == <<255, 255, 255>>

\* the colours of the images of more than one pixel
Colours == {BLACK, WHITE, <<200, 30, 60>>}

\* a grid over the RGB cube, for the images of one pixel
GridValues == {(k * 255) \div GridSteps : k \in 0..GridSteps}
GridColours == GridValues \X GridValues \X GridValues

\* the reference green of rule "green_boost" (the ITA flag green)
ITA_GREEN == <<0, 146, 70>>

\* rgb2lab and tree.query are evaluated once for the input colours
Lookup(table, key, value) == IF key \in DOMAIN table THEN table[key] ELSE value

lab_table ==
  Table([c \in Colours \cup GridColours \cup {ITA_GREEN} |-> pixel_lab(c)])

QueryTable(tree, labs) == Table([q \in labs |-> tree_query(tree, q)])
query_table ==
  QueryTable(build_hardware_palette.tree,
             {lab_table[c] : c \in DOMAIN lab_table})

\* rgb2lab(arr), one pixel
lab_of(px) == Lookup(lab_table, px, pixel_lab(px))

\* tree.query(q)
nearest(tree, q) == Lookup(query_table, q, tree_query(tree, q))

\* every value palette_input holds, as a set
achievable_colors ==
  {build_hardware_palette.input[i] : i \in 1..Len(sorted_keys)}

(***************************************************************************)
(* Images.  An image is [mode, w, h, px]: px is the row-major sequence of  *)
(* its pixels, <<r, g, b>> in mode "RGB" and <<r, g, b, a>> in mode        *)
(* "RGBA".  NoImage stands for Python's None.                              *)
(***************************************************************************)
NoImage == [mode |-> "None", w |-> 0, h |-> 0, px |-> << >>]
RgbImage(w, h, px) == [mode |-> "RGB", w |-> w, h |-> h, px |-> px]

\* every pixel of image is colour
Solid(image, colour) == \A i \in 1..Len(image.px) : image.px[i] = colour

(***************************************************************************)
(* Quantization                                                            *)
(***************************************************************************)
\* near_black with the comparison turned around
near_black_flipped(lab) == lab[1] > 500

\* L < 5
near_black(lab) == lab[1] < 500
\* (L > 95) & (np.abs(a) < 5) & (np.abs(b) < 5)
near_white(lab) == lab[1] > 9500 /\ Abs(lab[2]) < 500 /\ Abs(lab[3]) < 500

\* quantize_lab reading the wrong array of the palette: palette_lab[indices]
quantize_lab_wrong_array(palette, lab) ==
  IF lab[1] > 9500 /\ Abs(lab[2]) < 500 /\ Abs(lab[3]) < 500 THEN WHITE
  ELSE IF lab[1] < 500 THEN BLACK
  ELSE palette.lab[nearest(palette.tree, lab)]

\* one pixel of quantize_perceptual: the nearest palette colour, then near-black
\* forced to pure black, then near-white forced to pure white
quantize_lab(palette, lab) ==
  IF near_white(lab) THEN WHITE
  ELSE IF near_black(lab) THEN BLACK
  ELSE palette.input[nearest(palette.tree, lab)]

quantize_pixel(palette, px) == quantize_lab(palette, lab_of(px))

\* quantize_perceptual(img_rgb), palette being what _get_palette() returned
quantize_perceptual(palette, img_rgb) ==
  RgbImage(img_rgb.w, img_rgb.h,
           [i \in 1..Len(img_rgb.px) |-> quantize_pixel(palette, img_rgb.px[i])])

\* error_share without the factor strength: the whole error is diffused
error_share_unscaled(pixel_lab_, matched_lab, strength, weight) ==
  [c \in 1..3 |-> DivRound((pixel_lab_[c] - matched_lab[c]) * 10 * weight, 160)]

\* the share weight / 16 of error = (pixel_lab - palette_lab[idx]) * strength,
\* strength in tenths
error_share(pixel_lab_, matched_lab, strength, weight) ==
  [c \in 1..3 |-> DivRound((pixel_lab_[c] - matched_lab[c]) * strength * weight, 160)]

AddLab(p, e) == [c \in 1..3 |-> p[c] + e[c]]

\* diffuse with the weights of the right and the lower neighbour exchanged
diffuse_weights_swapped(lab, w, h, pos, matched_lab, strength) ==
  LET x == pos % w
      y == pos \div w
      e(weight) == error_share(lab[pos + 1], matched_lab, strength, weight)
  IN  [i \in 1..Len(lab) |->
         IF i = pos + 2 /\ x + 1 < w THEN AddLab(lab[i], e(5))
         ELSE IF i = pos + w /\ y + 1 < h /\ x > 0 THEN AddLab(lab[i], e(3))
         ELSE IF i = pos + w + 1 /\ y + 1 < h THEN AddLab(lab[i], e(7))
         ELSE IF i = pos + w + 2 /\ y + 1 < h /\ x + 1 < w THEN AddLab(lab[i], e(1))
         ELSE lab[i]]

\* the CIELAB buffer after the pixel at 0-based position pos = y * w + x was
\* matched to a palette entry of CIELAB value matched_lab: the error goes to
\* the right, below-left, below and below-right neighbours that exist
diffuse(lab, w, h, pos, matched_lab, strength) ==
  LET x == pos % w
      y == pos \div w
      e(weight) == error_share(lab[pos + 1], matched_lab, strength, weight)
  IN  [i \in 1..Len(lab) |->
         IF i = pos + 2 /\ x + 1 < w THEN AddLab(lab[i], e(7))
         ELSE IF i = pos + w /\ y + 1 < h /\ x > 0 THEN AddLab(lab[i], e(3))
         ELSE IF i = pos + w + 1 /\ y + 1 < h THEN AddLab(lab[i], e(5))
         ELSE IF i = pos + w + 2 /\ y + 1 < h /\ x + 1 < w THEN AddLab(lab[i], e(1))
         ELSE lab[i]]

\* result[y, x] = palette_input[idx] and the diffusion of the error
dither_match(palette, lab, w, h, pos, strength, idx) ==
  <<palette.input[idx], diffuse(lab, w, h, pos, palette.lab[idx], strength)>>

\* one iteration of the loops of quantize_perceptual_dithered:
\* <<the pixel written to result[y, x], the CIELAB buffer afterwards>>
dither_pixel(palette, lab, w, h, pos, strength) ==
  IF near_black(lab[pos + 1]) THEN <<BLACK, lab>>
  ELSE IF near_white(lab[pos + 1]) THEN <<WHITE, lab>>
  ELSE dither_match(palette, lab, w, h, pos, strength,
                    nearest(palette.tree, lab[pos + 1]))

(***************************************************************************)
(* Per-team color corrections                                              *)
(***************************************************************************)
NoTeam == "<None>"

TEAM_COLOR_FIXES ==
  [t \in {"SVK", "LAT", "ITA", "DEN", "SUI", "FRA", "CAN", "USA", "CZE",
          "NJD", "WSH", "SEA", "WPG", "CBJ", "MTL", "FLA", "CAR", "NYR", "MIN"}
     |-> "red"]
  @@ [t \in {"PHI", "NYI", "EDM"} |-> "orange"]
  @@ [t \in {"DAL"} |-> "green_boost"]

\* TEAM_COLOR_FIXES.get(team_abbrev, "red"): a rule for the unmatched too
rule_of_default_red(team_abbrev) ==
  IF team_abbrev \in DOMAIN TEAM_COLOR_FIXES THEN TEAM_COLOR_FIXES[team_abbrev]
  ELSE "red"

\* TEAM_COLOR_FIXES.get(team_abbrev)
rule_of(team_abbrev) ==
  IF team_abbrev \in DOMAIN TEAM_COLOR_FIXES THEN TEAM_COLOR_FIXES[team_abbrev]
  ELSE "None"

\* if team_abbrev: (None and the empty string are false)
truthy(team_abbrev) == team_abbrev # NoTeam /\ team_abbrev # ""

\* _apply_pre_quant_fix: no pre-quant fixes currently active
apply_pre_quant_fix(img_rgb, team_abbrev) == img_rgb

\* min_ch >= 150
fix_near_white(px) == Min2(Min2(px[1], px[2]), px[3]) >= 150

\* rule "red" without the tests of r - g and r - b
fix_red_no_dominance(px) ==
  IF px[1] >= 70 /\ ~fix_near_white(px) THEN <<px[1], 0, 0>>
  ELSE IF px[1] >= 70 /\ fix_near_white(px) THEN WHITE
  ELSE px

\* rule "red" with mask and white_mask exchanged
fix_red_masks_swapped(px) ==
  IF px[1] >= 70 /\ px[1] - px[2] > 15 /\ px[1] - px[3] > 15
    THEN IF fix_near_white(px) THEN <<px[1], 0, 0>> ELSE WHITE
    ELSE px

\* rule "red" with r > 70 for r >= 70
fix_red_threshold_exclusive(px) ==
  LET warm == px[1] > 70 /\ px[1] - px[2] > 15 /\ px[1] - px[3] > 15
  IN  IF warm /\ ~fix_near_white(px) THEN <<px[1], 0, 0>>
      ELSE IF warm /\ fix_near_white(px) THEN WHITE
      ELSE px

\* rule "red", one pixel
fix_red(px) ==
  LET warm == px[1] >= 70 /\ px[1] - px[2] > 15 /\ px[1] - px[3] > 15
  IN  IF warm /\ ~fix_near_white(px) THEN <<px[1], 0, 0>>
      ELSE IF warm /\ fix_near_white(px) THEN WHITE
      ELSE px

\* rule "orange" with b > 40 for b >= 40
fix_orange_blue_exclusive(px) ==
  LET pink == px[1] >= 80 /\ px[3] > 40 /\ px[1] > px[3]
  IN  IF pink /\ ~fix_near_white(px) THEN <<px[1], px[2], 0>>
      ELSE IF pink /\ fix_near_white(px) THEN WHITE
      ELSE px

\* rule "orange", one pixel
fix_orange(px) ==
  LET pink == px[1] >= 80 /\ px[3] >= 40 /\ px[1] > px[3]
  IN  IF pink /\ ~fix_near_white(px) THEN <<px[1], px[2], 0>>
      ELSE IF pink /\ fix_near_white(px) THEN WHITE
      ELSE px

\* ita_green without the match through the palette: the reference RGB itself
ita_green_unmatched(palette) == ITA_GREEN

\* ita_green = palette_input[idx], idx the entry nearest to the reference green
ita_green(palette) == palette.input[nearest(palette.tree, lab_of(ITA_GREEN))]

\* rule "green_boost" without not_black and near_white
fix_green_boost_unprotected(px, green) ==
  IF px[2] >= px[1] /\ px[2] >= px[3] THEN green ELSE px

\* rule "green_boost" with g > r and g > b: the ties left out
fix_green_boost_strict(px, green) ==
  IF /\ px[2] > px[1]
     /\ px[2] > px[3]
     /\ px[1] + px[2] + px[3] > 15
     /\ ~fix_near_white(px)
    THEN green
    ELSE px

\* rule "green_boost", one pixel
fix_green_boost(px, green) ==
  IF /\ px[2] >= px[1]
     /\ px[2] >= px[3]
     /\ px[1] + px[2] + px[3] > 15
     /\ ~fix_near_white(px)
    THEN green
    ELSE px

\* the loop-free body of a rule: the rule applied to every pixel
fix_pixel(rule, px, green) ==
  IF rule = "red" THEN fix_red(px)
  ELSE IF rule = "orange" THEN fix_orange(px)
  ELSE IF rule = "green_boost" THEN fix_green_boost(px, green)
  ELSE px

fix_image(rule, img_rgb, green) ==
  RgbImage(img_rgb.w, img_rgb.h,
           [i \in 1..Len(img_rgb.px) |-> fix_pixel(rule, img_rgb.px[i], green)])

\* _apply_post_quant_fix(img_rgb, team_abbrev); rule "green_boost" reads the
\* palette _get_palette() returned
apply_post_quant_fix(palette, img_rgb, team_abbrev) ==
  IF rule_of(team_abbrev) = "None" THEN img_rgb
  ELSE fix_image(rule_of(team_abbrev), img_rgb, ita_green(palette))

\* rgb_to_rgb565_le(r, g, b): ((r & 0xF8) << 8) | ((g & 0xFC) << 3) | (b >> 3)
rgb_to_rgb565(px) ==
  (px[1] \div 8) * 2048 + (px[2] \div 4) * 32 + px[3] \div 8

\* the hardware's reconstruction of a 16-bit RGB565 value (color565to888)
color565to888(v) ==
  <<expand5(v \div 2048), expand6((v \div 32) % 64), expand5(v % 32)>>

(***************************************************************************)
(* The bounded inputs: images and arguments                                *)
(***************************************************************************)
Shapes == {s \in (1..MaxPixels) \X (1..MaxPixels) : s[1] * s[2] <= MaxPixels}
ImagesOver(w, h, C) == {RgbImage(w, h, px) : px \in [1..(w * h) -> C]}
SmallImages == UNION {ImagesOver(s[1], s[2], Colours) : s \in Shapes}
GridImages == ImagesOver(1, 1, GridColours)
GrayImages == {RgbImage(1, 1, << <<v, v, v>> >>) : v \in 0..255}

\* the channel values on both sides of every threshold of the rules (15, 40,
\* 70, 80, 150 and the differences of 15), for the images of one pixel
EdgeValues == {0, 5, 6, 39, 40, 54, 55, 69, 70, 79, 80, 149, 150, 165, 166, 255}
EdgeImages == ImagesOver(1, 1, EdgeValues \X EdgeValues \X EdgeValues)

\* strength of the dithering, in tenths
Strengths == {0, 4, 10}
DefaultStrength == 4

\* team_abbrev: None, the empty string, a team of every rule, a team without
\* a rule and a known team in lower case
Teams == {NoTeam, "", "NJD", "PHI", "DAL", "TOR", "njd"}
PipelineTeams == {NoTeam, "", "NJD", "PHI", "DAL", "TOR"}
RuleTeams == {"NJD", "PHI", "DAL"}

\* target_size of process_logo_perceptual: the small sizes, and the default
\* size for the images of one colour
Sizes == {n \in 1..MaxPixels : n * n <= MaxPixels}
DefaultSize == 20
SizesFor(image) == IF Len(image.px) = 1 THEN Sizes \cup {DefaultSize} ELSE Sizes

\* the arguments img_rgba of process_logo_perceptual: RGBA and RGB images of
\* one pixel, an RGBA image of two colours, a zero-sized image and None (not
\* an image)
SolidRed == [mode |-> "RGBA", w |-> 1, h |-> 1, px |-> << <<255, 0, 0, 255>> >>]
PipelineInputs ==
  { SolidRed,
    [mode |-> "RGBA", w |-> 1, h |-> 1, px |-> << <<255, 0, 0, 0>> >>],
    [mode |-> "RGB", w |-> 1, h |-> 1, px |-> << <<255, 0, 0>> >>],
    [mode |-> "RGBA", w |-> 2, h |-> 1,
     px |-> << <<255, 0, 0, 255>>, <<0, 0, 255, 128>> >>],
    [mode |-> "RGBA", w |-> 0, h |-> 0, px |-> << >>],
    NoImage }

(***************************************************************************)
(* build_logos.main: the batch driver                                      *)
(***************************************************************************)
\* the codes of the international teams, in the order of the source
INTERNATIONAL_TEAMS ==
  <<"AUT", "CAN", "CZE", "DEN", "FIN", "FRA", "GER", "ITA", "LAT", "NOR", "RUS",
    "SVK", "SUI", "SWE", "USA">>

\* how many standings entries the API returns at most, and how many of the
\* international teams a run goes through
MaxStandings == 2
MaxIntl == 2

\* a standings entry: teamAbbrev is a dict with the key "default" ("dict"), a
\* plain string ("str") or absent together with teamCommonName ("absent");
\* teamLogo is a URL or absent
Entries ==
  [abbrev : {"NJD", "CAN"}, shape : {"dict", "str", "absent"}, logo : BOOLEAN]

Standings == UNION {[1..n -> Entries] : n \in 0..MaxStandings}

NoManifest == <<"<no manifest.json>">>

\* main after manifest = [] and seen_abbrevs = set(); item counts the logos
\* whose handling has begun, failed holds those whose handling failed,
\* handled those written and appended, written the files of the output folder
\* with the logo they were written for
BatchInit ==
  [pc |-> "start", phase |-> "nhl", no_international |-> FALSE,
   standings |-> << >>, i |-> 1, abbrev |-> NoTeam, item |-> 0,
   manifest |-> << >>, seen_abbrevs |-> {}, written |-> {}, failed |-> {},
   handled |-> << >>, raised |-> "none", raised_in |-> 0,
   manifest_file |-> NoManifest]

(***************************************************************************)
(* The state of the process                                                *)
(***************************************************************************)
VARIABLES
  palette_cache, \* _palette_cache: 0 (None) or the identity of the palette object
  builds,        \* the number of runs of _build_hardware_palette so far
  used,          \* the palette object the current or last call got (0: none)
  pc,            \* "idle", where the call in progress stands, or "done"
  op,            \* the function called last from the top level
  arg,           \* its arguments
  src,           \* the call that returned arg.img ("input": a fresh image)
  img,           \* the local image of the call in progress
  lab,           \* quantize_perceptual_dithered: the CIELAB buffer
  result,        \* quantize_perceptual_dithered: the result array
  pos,           \* quantize_perceptual_dithered: y * w + x of the next pixel
  ret,           \* what the last call returned (NoImage: nothing)
  err,           \* the exception the last call raised ("none": none)
  threads,       \* parallel callers of _get_palette: where each one stands,
                 \* the palette it built and the palette it was returned
  batch          \* build_logos.main: its locals, the files of the output
                 \* folder and the exception that left it

vars == <<palette_cache, builds, used, pc, op, arg, src, img, lab, result, pos,
          ret, err, threads, batch>>

\* the parallel callers
NThreads == 3
Threads == 1..NThreads

Args(image, team, dither, strength, size) ==
  [img |-> image, team |-> team, dither |-> dither, strength |-> strength,
   size |-> size]

Init ==
  /\ palette_cache = 0
  /\ builds = 0
  /\ used = 0
  /\ pc = "idle"
  /\ op = "none"
  /\ arg = Args(NoImage, NoTeam, FALSE, DefaultStrength, 0)
  /\ src = "input"
  /\ img = NoImage
  /\ lab = << >>
  /\ result = << >>
  /\ pos = 0
  /\ ret = NoImage
  /\ err = "none"
  /\ threads = [t \in Threads |-> [pc |-> "idle", built |-> 0, got |-> 0]]
  /\ batch = BatchInit

\* _get_palette without the test of the cache: the palette is built every time
GetPaletteUncached ==
  /\ palette_cache' = builds + 1
  /\ builds' = builds + 1
  /\ used' = palette_cache'

\* _get_palette(): builds the palette when the cache is None, returns the cache
GetPalette ==
  /\ palette_cache' = IF palette_cache = 0 THEN builds + 1 ELSE palette_cache
  /\ builds' = IF palette_cache = 0 THEN builds + 1 ELSE builds
  /\ used' = palette_cache'

NoPalette == UNCHANGED <<palette_cache, builds>> /\ used' = 0

DitherIdle == UNCHANGED <<lab, result, pos>>

\* a call from the top level: the function, its arguments and where its image
\* comes from; the body starts at label
Call(function, args, from, label) ==
  /\ op' = function
  /\ arg' = args
  /\ src' = from
  /\ img' = args.img
  /\ pc' = label
  /\ ret' = NoImage
  /\ err' = "none"
  /\ NoPalette
  /\ DitherIdle
  /\ UNCHANGED <<threads, batch>>

\* quantize_perceptual(img_rgb) is called with a fresh image, or with the image
\* quantize_perceptual just returned
CallQuantize ==
  \/ /\ pc = "idle"
     /\ \E image \in SmallImages \cup GridImages :
          Call("quantize_perceptual",
               Args(image, NoTeam, FALSE, DefaultStrength, 0), "input", "quantize")
  \/ /\ pc = "done"
     /\ op = "quantize_perceptual"
     /\ src = "input"
     /\ Call(op, Args(ret, NoTeam, FALSE, DefaultStrength, 0), op, "quantize")

\* quantize_perceptual_dithered(img_rgb, strength) is called
CallDithered ==
  /\ pc = "idle"
  /\ \E image \in SmallImages, strength \in Strengths :
       Call("quantize_perceptual_dithered",
            Args(image, NoTeam, TRUE, strength, 0), "input", "quantize")

\* _apply_post_quant_fix(img_rgb, team_abbrev) is called with a fresh image,
\* with a pixel at the thresholds of the rule of its team, with the image a
\* quantizer just returned, or once more with the image it just returned, for
\* the same team
CallPostFix ==
  \/ /\ pc = "idle"
     /\ \E image \in SmallImages \cup GridImages \cup GrayImages, team \in Teams :
          Call("_apply_post_quant_fix",
               Args(image, team, FALSE, DefaultStrength, 0), "input", "post_fix")
  \/ /\ pc = "idle"
     /\ \E image \in EdgeImages, team \in RuleTeams :
          Call("_apply_post_quant_fix",
               Args(image, team, FALSE, DefaultStrength, 0), "input", "post_fix")
  \/ /\ pc = "done"
     /\ op \in {"quantize_perceptual", "quantize_perceptual_dithered"}
     /\ src = "input"
     /\ \E team \in Teams :
          Call("_apply_post_quant_fix",
               Args(ret, team, FALSE, DefaultStrength, 0), op, "post_fix")
  \/ /\ pc = "done"
     /\ op = "_apply_post_quant_fix"
     /\ src = "input"
     /\ Call(op, Args(ret, arg.team, FALSE, DefaultStrength, 0), op, "post_fix")

\* the call in progress raises the exception kind
Raise(kind) ==
  /\ err' = kind
  /\ ret' = NoImage
  /\ img' = NoImage
  /\ pc' = "done"

\* the call in progress returns image: to the top level, or to
\* process_logo_perceptual, which goes on at label
Return(image, label) ==
  IF op = "process_logo_perceptual" /\ label # "done"
    THEN /\ img' = image
         /\ pc' = label
         /\ UNCHANGED ret
    ELSE /\ ret' = image
         /\ img' = NoImage
         /\ pc' = "done"

\* the start of quantize_perceptual_dithered(image): the CIELAB buffer of the
\* image and the zeroed result array
StartDither(image) ==
  /\ lab' = [i \in 1..Len(image.px) |-> lab_of(image.px[i])]
  /\ result' = [i \in 1..Len(image.px) |-> BLACK]
  /\ pos' = 0
  /\ pc' = "dither"

\* the body of quantize_perceptual, and of quantize_perceptual_dithered up to
\* its loops; step 4 of process_logo_perceptual
Quantize ==
  /\ pc = "quantize"
  /\ GetPalette
  /\ IF arg.dither
       THEN StartDither(img) /\ UNCHANGED <<img, ret>>
       ELSE /\ Return(quantize_perceptual(build_hardware_palette, img), "post_fix")
            /\ DitherIdle
  /\ UNCHANGED <<op, arg, src, err>>
  /\ UNCHANGED <<threads, batch>>

\* result[y, x] and the CIELAB buffer after one iteration
DitherWrite(d) ==
  /\ result' = [result EXCEPT ![pos + 1] = d[1]]
  /\ lab' = d[2]

\* one iteration of for y in range(h): for x in range(w)
DitherStep ==
  /\ pc = "dither"
  /\ pos < img.w * img.h
  /\ DitherWrite(dither_pixel(build_hardware_palette, lab, img.w, img.h, pos,
                              arg.strength))
  /\ pos' = pos + 1
  /\ UNCHANGED <<palette_cache, builds, used, pc, op, arg, src, img, ret, err>>
  /\ UNCHANGED <<threads, batch>>

\* the loops are over: return Image.fromarray(result, "RGB")
DitherReturn ==
  /\ pc = "dither"
  /\ pos = img.w * img.h
  /\ Return(RgbImage(img.w, img.h, result), "post_fix")
  /\ lab' = << >>
  /\ result' = << >>
  /\ pos' = 0
  /\ UNCHANGED <<palette_cache, builds, used, op, arg, src, err>>
  /\ UNCHANGED <<threads, batch>>

\* the body of _apply_post_quant_fix; step 5 of process_logo_perceptual:
\* if team_abbrev: img_result = _apply_post_quant_fix(img_result, team_abbrev)
PostFix ==
  /\ pc = "post_fix"
  /\ IF op = "process_logo_perceptual" /\ ~truthy(arg.team)
       THEN /\ Return(img, "done")
            /\ UNCHANGED <<palette_cache, builds, used>>
       ELSE /\ Return(apply_post_quant_fix(build_hardware_palette, img, arg.team),
                      "done")
            /\ IF rule_of(arg.team) = "green_boost"
                 THEN GetPalette
                 ELSE UNCHANGED <<palette_cache, builds, used>>
  /\ UNCHANGED <<op, arg, src, err>>
  /\ DitherIdle
  /\ UNCHANGED <<threads, batch>>

\* PIL's paste of one channel through a mask value: (in * mask + 128) / 255,
\* the destination being black
paste_channel(v, mask) ==
  LET tmp == v * mask + 128
  IN  ((tmp \div 256) + tmp) \div 256

\* rgba_to_rgb(image): the image over a black background
rgba_to_rgb(image) ==
  IF image.mode = "RGBA"
    THEN RgbImage(image.w, image.h,
                  [i \in 1..Len(image.px) |->
                     <<paste_channel(image.px[i][1], image.px[i][4]),
                       paste_channel(image.px[i][2], image.px[i][4]),
                       paste_channel(image.px[i][3], image.px[i][4])>>])
    ELSE RgbImage(image.w, image.h, image.px)

\* PIL's conversion of an RGB pixel to mode "L" (ITU-R 601-2 luma)
luma(px) == (px[1] * 19595 + px[2] * 38470 + px[3] * 7471 + 32768) \div 65536

\* Image.blend(degenerate, image, factor) on one channel, factor in tenths and
\* above 1: degenerate + factor * (image - degenerate), clipped to 0..255
blend(d, v, factor) ==
  IF 10 * d + factor * (v - d) <= 0 THEN 0
  ELSE IF 10 * d + factor * (v - d) >= 2550 THEN 255
  ELSE (10 * d + factor * (v - d)) \div 10

blend_gray(px, factor) ==
  <<blend(luma(px), px[1], factor), blend(luma(px), px[2], factor),
    blend(luma(px), px[3], factor)>>

\* ImageEnhance.Contrast(1.2), Color(1.3) and Sharpness(1.1) on an image of the
\* one colour px: the mean gray and the gray image have the luma of px, the
\* smoothed image is the image
enhance_solid(px) == blend_gray(blend_gray(px, 12), 13)

\* what ImageEnhance (contrast, saturation, sharpness) and the BOX resize to
\* target_size may return.  An image of one colour gives the image of its
\* enhanced colour; for the others the library's arithmetic is not modelled,
\* any image of target_size x target_size is possible
Resampled(image, size) ==
  IF Solid(image, image.px[1])
    THEN {RgbImage(size, size, [i \in 1..(size * size) |-> enhance_solid(image.px[1])])}
  ELSE IF size = 1 THEN ImagesOver(1, 1, Colours \cup GridColours)
  ELSE ImagesOver(size, size, Colours)

\* process_logo_perceptual(img_rgba, target_size, dither, team_abbrev) is called
CallProcessLogo ==
  /\ pc = "idle"
  /\ \E image \in PipelineInputs, team \in PipelineTeams, dither \in BOOLEAN :
     \E size \in SizesFor(image) :
       Call("process_logo_perceptual",
            Args(image, team, dither, DefaultStrength, size), "input", "rgba_to_rgb")

\* 1. img_rgb = rgba_to_rgb(img_rgba); None has no attribute size
RgbaToRgb ==
  /\ pc = "rgba_to_rgb"
  /\ IF img.mode = "None"
       THEN Raise("AttributeError")
       ELSE /\ img' = rgba_to_rgb(img)
            /\ pc' = "enhance"
            /\ UNCHANGED <<ret, err>>
  /\ UNCHANGED <<palette_cache, builds, used, op, arg, src>>
  /\ DitherIdle
  /\ UNCHANGED <<threads, batch>>

\* 1. and 2. ImageEnhance three times, then resize with the BOX filter; the
\* library raises on an image without pixels
EnhanceResample ==
  /\ pc = "enhance"
  /\ IF img.w * img.h = 0
       THEN \E kind \in {"ZeroDivisionError", "ValueError"} : Raise(kind)
       ELSE /\ img' \in Resampled(img, arg.size)
            /\ pc' = "pre_fix"
            /\ UNCHANGED <<ret, err>>
  /\ UNCHANGED <<palette_cache, builds, used, op, arg, src>>
  /\ DitherIdle
  /\ UNCHANGED <<threads, batch>>

\* 3. if team_abbrev: img_small = _apply_pre_quant_fix(img_small, team_abbrev)
PreFix ==
  /\ pc = "pre_fix"
  /\ img' = IF truthy(arg.team) THEN apply_pre_quant_fix(img, arg.team) ELSE img
  /\ pc' = "quantize"
  /\ UNCHANGED <<palette_cache, builds, used, op, arg, src, ret, err>>
  /\ DitherIdle
  /\ UNCHANGED <<threads, batch>>

\* the caller drops what the last call returned or raised
Forget ==
  /\ pc = "done"
  /\ pc' = "idle"
  /\ op' = "none"
  /\ arg' = Args(NoImage, NoTeam, FALSE, DefaultStrength, 0)
  /\ src' = "input"
  /\ ret' = NoImage
  /\ err' = "none"
  /\ used' = 0
  /\ UNCHANGED <<palette_cache, builds, img>>
  /\ DitherIdle
  /\ UNCHANGED <<threads, batch>>

Next ==
  \/ CallQuantize
  \/ CallPostFix
  \/ CallDithered
  \/ Quantize
  \/ DitherStep
  \/ DitherReturn
  \/ PostFix
  \/ CallProcessLogo
  \/ RgbaToRgb
  \/ EnhanceResample
  \/ PreFix
  \/ Forget

\* one process, one call at a time
Spec == Init /\ [][Next]_vars

\* the values a CIELAB coordinate of the buffer takes, in hundredths
LabRange == (-30000)..30000

\* the loops of quantize_perceptual_dithered go on to the next pixel, whatever
\* the iteration writes to result and to the CIELAB buffer
LoopAdvances ==
  /\ pc = "dither"
  /\ pos < img.w * img.h
  /\ pos' = pos + 1
  /\ lab' \in [1..Len(lab) -> LabRange \X LabRange \X LabRange]
  /\ result' \in [1..Len(result) -> (0..255) \X (0..255) \X (0..255)]
  /\ UNCHANGED <<palette_cache, builds, used, pc, op, arg, src, img, ret, err>>
  /\ UNCHANGED <<threads, batch>>

\* calls of quantize_perceptual_dithered only
NextDither ==
  \/ CallDithered
  \/ Quantize
  \/ DitherStep
  \/ DitherReturn
  \/ Forget

\* a call that has begun runs on: the body up to the loops, every iteration
\* of the loops and the return statement are executed in their turn
SpecDither ==
  /\ Init
  /\ [][NextDither]_vars
  /\ WF_vars(Quantize)
  /\ WF_vars(LoopAdvances)
  /\ WF_vars(DitherReturn)

(***************************************************************************)
(* Parallel callers of _get_palette.  The function takes no lock, so its   *)
(* statements interleave: the test of the cache, the run of               *)
(* _build_hardware_palette, the assignment to the cache and the read of   *)
(* the cache for the return value are separate steps of every caller.      *)
(***************************************************************************)
Sequential ==
  UNCHANGED <<used, pc, op, arg, src, img, lab, result, pos, ret, err, batch>>

At(t, label) == threads[t].pc = label
Goto(t, label) == threads' = [threads EXCEPT ![t].pc = label]

\* a caller enters _get_palette()
GetPaletteEnter(t) ==
  /\ At(t, "idle")
  /\ threads' = [threads EXCEPT ![t] = [pc |-> "test", built |-> 0, got |-> 0]]
  /\ UNCHANGED <<palette_cache, builds>>
  /\ Sequential

\* if _palette_cache is None:
GetPaletteTest(t) ==
  /\ At(t, "test")
  /\ Goto(t, IF palette_cache = 0 THEN "build" ELSE "return")
  /\ UNCHANGED <<palette_cache, builds>>
  /\ Sequential

\* _build_hardware_palette() runs and makes a new palette object
GetPaletteBuild(t) ==
  /\ At(t, "build")
  /\ builds' = builds + 1
  /\ threads' = [threads EXCEPT ![t].pc = "assign", ![t].built = builds + 1]
  /\ UNCHANGED palette_cache
  /\ Sequential

\* _palette_cache = (the object built)
GetPaletteAssign(t) ==
  /\ At(t, "assign")
  /\ palette_cache' = threads[t].built
  /\ Goto(t, "return")
  /\ UNCHANGED builds
  /\ Sequential

\* return _palette_cache
GetPaletteReturn(t) ==
  /\ At(t, "return")
  /\ threads' = [threads EXCEPT ![t].pc = "idle", ![t].got = palette_cache]
  /\ UNCHANGED <<palette_cache, builds>>
  /\ Sequential

NextPar ==
  \E t \in Threads :
    \/ GetPaletteEnter(t)
    \/ GetPaletteTest(t)
    \/ GetPaletteBuild(t)
    \/ GetPaletteAssign(t)
    \/ GetPaletteReturn(t)

\* several callers in one process
SpecPar == Init /\ [][NextPar]_vars

(***************************************************************************)
(* The batch driver, build_logos.main.  Fetching, rendering and processing *)
(* a logo either return or raise an Exception; writing a file either       *)
(* succeeds or raises OSError, with or without the file left behind.       *)
(***************************************************************************)
EngineIdle ==
  UNCHANGED <<palette_cache, builds, used, pc, op, arg, src, img, lab, result,
              pos, ret, err, threads>>

IntlTeams == SubSeq(INTERNATIONAL_TEAMS, 1, MaxIntl)

\* an exception leaves main while the logo item is handled (0: outside the
\* handling of a logo)
BatchRaise(kind, item) ==
  [batch EXCEPT !.pc = "raised", !.raised = kind, !.raised_in = item]

\* the loop over the international teams begins, or is left out
AfterNhl(b) ==
  IF b.no_international
    THEN [b EXCEPT !.pc = "manifest"]
    ELSE [b EXCEPT !.pc = "entry", !.phase = "intl", !.i = 1]

\* continue: the next entry of the loop
Continue(b) == [b EXCEPT !.pc = "entry", !.i = b.i + 1, !.abbrev = NoTeam]

\* args = parser.parse_args() up to data.get("standings", []): with --no-nhl
\* the standings are not fetched; fetch_json may raise
BatchStart ==
  /\ batch.pc = "start"
  /\ \E no_nhl \in BOOLEAN, no_international \in BOOLEAN :
       IF no_nhl
         THEN batch' = AfterNhl([batch EXCEPT !.no_international = no_international])
         ELSE \/ batch' = BatchRaise("HTTPError", 0)
              \/ \E standings \in Standings :
                   batch' = [batch EXCEPT !.pc = "entry", !.phase = "nhl", !.i = 1,
                                          !.no_international = no_international,
                                          !.standings = standings]
  /\ EngineIdle

\* for entry in standings: abbrev = entry.get("teamAbbrev", {}).get("default")
\* or ...; a str has no attribute get; without abbrev or logo_url: continue
NhlEntry ==
  /\ batch.pc = "entry"
  /\ batch.phase = "nhl"
  /\ batch' =
       IF batch.i > Len(batch.standings) THEN AfterNhl(batch)
       ELSE IF batch.standings[batch.i].shape = "str"
         THEN [BatchRaise("AttributeError", batch.item + 1)
                 EXCEPT !.item = batch.item + 1,
                        !.failed = batch.failed \cup {batch.item + 1}]
       ELSE IF batch.standings[batch.i].shape = "absent"
               \/ ~batch.standings[batch.i].logo
         THEN Continue(batch)
       ELSE [batch EXCEPT !.pc = "try", !.item = batch.item + 1,
                          !.abbrev = batch.standings[batch.i].abbrev]
  /\ EngineIdle

\* for team_code in INTERNATIONAL_TEAMS: if team_code in seen_abbrevs: continue
IntlEntry ==
  /\ batch.pc = "entry"
  /\ batch.phase = "intl"
  /\ batch' =
       IF batch.i > Len(IntlTeams) THEN [batch EXCEPT !.pc = "manifest"]
       ELSE IF IntlTeams[batch.i] \in batch.seen_abbrevs THEN Continue(batch)
       ELSE [batch EXCEPT !.pc = "try", !.item = batch.item + 1,
                          !.abbrev = IntlTeams[batch.i]]
  /\ EngineIdle

\* try: fetch_logo_image, process_logo; except Exception: print, continue
TryLogo ==
  /\ batch.pc = "try"
  /\ \/ batch' = [batch EXCEPT !.pc = "write_rgb565"]
     \/ batch' = Continue([batch EXCEPT !.failed = batch.failed \cup {batch.item}])
  /\ EngineIdle

\* a file of the current logo is written and the driver goes on at label, or
\* open or write raises OSError
WriteFile(suffix, label) ==
  \/ batch' = [batch EXCEPT !.pc = label,
                            !.written = batch.written \cup {<<batch.item, suffix>>}]
  \/ \E left \in BOOLEAN :
       batch' = [BatchRaise("OSError", batch.item)
                   EXCEPT !.failed = batch.failed \cup {batch.item},
                          !.written = IF left
                                        THEN batch.written \cup {<<batch.item, suffix>>}
                                        ELSE batch.written]

\* write_rgb565(rgb565_path, img_rgb)
WriteRgb565 ==
  /\ batch.pc = "write_rgb565"
  /\ WriteFile(".rgb565", "save")
  /\ EngineIdle

\* img_rgb.save(png_path, format="PNG")
SavePng ==
  /\ batch.pc = "save"
  /\ WriteFile(".png", "append")
  /\ EngineIdle

\* manifest.append({...}); seen_abbrevs.add(abbrev)
ManifestAppend ==
  /\ batch.pc = "append"
  /\ batch' = Continue([batch EXCEPT
                          !.manifest = Append(batch.manifest, batch.abbrev),
                          !.seen_abbrevs = batch.seen_abbrevs \cup {batch.abbrev},
                          !.handled = Append(batch.handled, batch.item)])
  /\ EngineIdle

\* with open(manifest_path, "w") as f: json.dump(manifest, f, indent=2)
WriteManifest ==
  /\ batch.pc = "manifest"
  /\ \/ batch' = [batch EXCEPT !.pc = "done", !.manifest_file = batch.manifest]
     \/ batch' = BatchRaise("OSError", 0)
  /\ EngineIdle

NextBatch ==
  \/ BatchStart
  \/ NhlEntry
  \/ IntlEntry
  \/ TryLogo
  \/ WriteRgb565
  \/ SavePng
  \/ ManifestAppend
  \/ WriteManifest

\* one run of the batch driver
SpecBatch == Init /\ [][NextBatch]_vars

(***************************************************************************)
(* Properties                                                              *)
(***************************************************************************)
\* the last call was function and it returned an image
Returned(function) == pc = "done" /\ op = function /\ err = "none"

\* the first n of pixels are all in colours
AllIn(pixels, n, colours) == \A i \in 1..n : pixels[i] \in colours

\* what a quantizer may write: palette_input[idx] and the two overrides
quantizer_colors == achievable_colors \cup {BLACK, WHITE}

\* C1: every pixel quantize_perceptual and quantize_perceptual_dithered return,
\* called from the top level or by process_logo_perceptual, is the RGB888 of a
\* palette entry or one of the overrides (0,0,0) and (255,255,255); in the
\* dithered path so is every pixel written so far, whatever error the CIELAB
\* buffer has accumulated
C1_QuantizerOutputInPalette ==
  /\ Returned("quantize_perceptual") \/ Returned("quantize_perceptual_dithered")
       => AllIn(ret.px, Len(ret.px), quantizer_colors)
  /\ pc = "dither" => AllIn(result, pos, quantizer_colors)
  /\ pc = "post_fix" /\ op = "process_logo_perceptual"
       => AllIn(img.px, Len(img.px), quantizer_colors)

\* the dithered loops are over at full strength, and a pixel whose CIELAB value
\* had received error was matched to a palette entry
C1_Witness ==
  /\ pc = "dither"
  /\ pos = img.w * img.h
  /\ arg.strength = 10
  /\ \E i \in 2..pos :
       /\ lab[i] # lab_of(arg.img.px[i])
       /\ result[i] \notin {BLACK, WHITE}

\* the palette's match of the reference green, computed as the quantizer does
reference_green == quantize_pixel(build_hardware_palette, ITA_GREEN)

\* C2: for every team (rule red, orange, green_boost or none) and either dither
\* setting, every pixel of the image process_logo_perceptual returns is an
\* achievable colour, black, white or the reference green
C2_PipelineOutputAchievable ==
  Returned("process_logo_perceptual")
    => AllIn(ret.px, Len(ret.px), quantizer_colors \cup {reference_green})

\* process_logo_perceptual returned a dithered image of the team of rule
\* green_boost, the reference green in it
C2_Witness ==
  /\ Returned("process_logo_perceptual")
  /\ arg.dither
  /\ rule_of(arg.team) = "green_boost"
  /\ \E i \in 1..Len(ret.px) : ret.px[i] = reference_green

\* packing px to RGB565 and expanding the fields again gives px back
round_trips(px) == color565to888(rgb_to_rgb565(px)) = px

\* every palette entry and both overrides are RGB565 grid points
palette_round_trips == \A c \in quantizer_colors : round_trips(c)

\* the last call returned what the core can output: a quantized image, with or
\* without the correction of a team
CoreOutput ==
  \/ Returned("quantize_perceptual")
  \/ Returned("quantize_perceptual_dithered")
  \/ Returned("process_logo_perceptual")
  \/ /\ Returned("_apply_post_quant_fix")
     /\ src \in {"quantize_perceptual", "quantize_perceptual_dithered"}

\* C3: every palette entry, the black and white overrides and every pixel of a
\* quantized image after the red, orange or green_boost correction is an exact
\* RGB565 grid point: ((R & 0xF8) << 8) | ((G & 0xFC) << 3) | (B >> 3), expanded
\* by the hardware's bit replication, is the same RGB888 value
C3_OutputOnRgb565Grid ==
  /\ palette_round_trips
  /\ CoreOutput => \A i \in 1..Len(ret.px) : round_trips(ret.px[i])

\* the red rule changed a quantized image
C3_Witness ==
  /\ Returned("_apply_post_quant_fix")
  /\ src = "quantize_perceptual"
  /\ rule_of(arg.team) = "red"
  /\ ret # arg.img

\* C4: quantize_perceptual(quantize_perceptual(img)) = quantize_perceptual(img),
\* pixel for pixel: quantize_perceptual maps every image it returned to itself
C4_QuantizeIdempotent ==
  Returned("quantize_perceptual") /\ src = "quantize_perceptual" => ret = arg.img

\* quantize_perceptual returned an image other than the quantized image given
C4_Witness ==
  /\ Returned("quantize_perceptual")
  /\ src = "quantize_perceptual"
  /\ ret # arg.img

\* C5: on both quantizer paths an image of (0,0,0) only quantizes to (0,0,0)
\* only and an image of (255,255,255) only to (255,255,255) only, whatever its
\* size; both colours are palette entries, the representatives of the CIE
\* triples (0,0,0) and (15,15,15)
C5_SolidBlackAndWhite ==
  /\ seen_all[<<0, 0, 0>>] = BLACK
  /\ seen_all[<<15, 15, 15>>] = WHITE
  /\ {BLACK, WHITE} \subseteq achievable_colors
  /\ Returned("quantize_perceptual") \/ Returned("quantize_perceptual_dithered")
       => /\ ret.w = arg.img.w /\ ret.h = arg.img.h
          /\ Solid(arg.img, BLACK) => Solid(ret, BLACK)
          /\ Solid(arg.img, WHITE) => Solid(ret, WHITE)

\* the dithered quantizer returned an image of MaxPixels white pixels
C5_Witness ==
  /\ Returned("quantize_perceptual_dithered")
  /\ Len(arg.img.px) = MaxPixels
  /\ Solid(arg.img, WHITE)
  /\ Solid(ret, WHITE)

\* a body that calls _get_palette() is about to run
NeedsPalette ==
  \/ pc = "quantize"
  \/ /\ pc = "post_fix"
     /\ rule_of(arg.team) = "green_boost"
     /\ op = "process_logo_perceptual" => truthy(arg.team)

\* C6: over any sequence of calls in one process the palette is built by the
\* first call that needs it and never before, _build_hardware_palette runs at
\* most once, and every later call receives the same palette: the cache, once
\* set, keeps the object, and a call that got a palette got the cached one
C6_PaletteBuiltOnceLazily ==
  /\ [](builds <= 1)
  /\ []((palette_cache = 0) <=> (builds = 0))
  /\ [](used \in {0, palette_cache})
  /\ [][builds' # builds => NeedsPalette /\ palette_cache = 0]_vars
  /\ [][NeedsPalette /\ pc' # pc => palette_cache' # 0 /\ used' = palette_cache']_vars
  /\ [][palette_cache # 0 => palette_cache' = palette_cache]_vars

\* the green_boost correction got the palette quantize_perceptual had built
C6_Witness ==
  /\ Returned("_apply_post_quant_fix")
  /\ src = "quantize_perceptual"
  /\ rule_of(arg.team) = "green_boost"
  /\ builds = 1
  /\ used = palette_cache
  /\ used # 0

\* C7: with several callers in _get_palette while the cache is empty,
\* _build_hardware_palette runs once and no two callers are returned different
\* palette objects
C7_ParallelBuiltOnce ==
  /\ builds <= 1
  /\ \A s, t \in Threads :
       threads[s].got # 0 /\ threads[t].got # 0 => threads[s].got = threads[t].got

\* two callers hold different palette objects
C7_Witness ==
  \E s, t \in Threads :
    /\ At(s, "idle") /\ At(t, "idle")
    /\ threads[s].got # 0
    /\ threads[t].got # 0
    /\ threads[s].got # threads[t].got

\* img_rgba is not an image, or has no pixels
InvalidInput == arg.img.mode \notin {"RGB", "RGBA"} \/ arg.img.w * arg.img.h = 0

\* C8: process_logo_perceptual given an image that is not convertible to
\* RGB/RGBA or that is zero-sized fails with InputFormatError, returns no image
\* and has not reached the quantizer
C8_InputFormatError ==
  pc = "done" /\ op = "process_logo_perceptual" /\ InvalidInput
    => err = "InputFormatError" /\ ret = NoImage /\ used = 0

\* process_logo_perceptual, given None, ended with another exception
C8_Witness ==
  /\ pc = "done"
  /\ op = "process_logo_perceptual"
  /\ arg.img = NoImage
  /\ err \notin {"none", "InputFormatError"}

\* C9: the red rule returns an image of true grayscale pixels (R = G = B, any
\* value 0..255) unchanged, pixel for pixel
C9_RedKeepsGrayscale ==
  /\ Returned("_apply_post_quant_fix")
  /\ rule_of(arg.team) = "red"
  /\ \A i \in 1..Len(arg.img.px) :
       arg.img.px[i][1] = arg.img.px[i][2] /\ arg.img.px[i][2] = arg.img.px[i][3]
  => ret = arg.img

\* the red rule returned the image of one gray pixel of value 200
C9_Witness ==
  /\ Returned("_apply_post_quant_fix")
  /\ rule_of(arg.team) = "red"
  /\ arg.img.px = << <<200, 200, 200>> >>
  /\ ret = arg.img

\* C10: under each of the rules red, orange and green_boost,
\* _apply_post_quant_fix leaves every pixel that is pure black (0,0,0) or pure
\* white (255,255,255) exactly as it is
C10_RulesKeepBlackAndWhite ==
  Returned("_apply_post_quant_fix") /\ rule_of(arg.team) # "None"
    => \A i \in 1..Len(arg.img.px) :
         arg.img.px[i] \in {BLACK, WHITE} => ret.px[i] = arg.img.px[i]

\* the orange rule changed a pixel of a dithered image and kept the black and
\* the white pixel next to it
C10_Witness ==
  /\ Returned("_apply_post_quant_fix")
  /\ src = "quantize_perceptual_dithered"
  /\ rule_of(arg.team) = "orange"
  /\ \E i, j, k \in 1..Len(arg.img.px) :
       /\ arg.img.px[i] = BLACK /\ ret.px[i] = BLACK
       /\ arg.img.px[j] = WHITE /\ ret.px[j] = WHITE
       /\ ret.px[k] # arg.img.px[k]

\* C11: _apply_post_quant_fix returns the image unchanged for every team that
\* is not an exact key of TEAM_COLOR_FIXES (None, the empty string, an unknown
\* code, a known code in lower case), and the step of _apply_pre_quant_fix
\* leaves the image unchanged for every team; neither raises
C11_UnmatchedPassThrough ==
  /\ [](pc = "done" /\ op = "_apply_post_quant_fix"
          => /\ err = "none"
             /\ arg.team \notin DOMAIN TEAM_COLOR_FIXES => ret = arg.img)
  /\ [][pc = "pre_fix" => img' = img /\ err' = "none" /\ pc' = "quantize"]_vars

\* _apply_post_quant_fix returned, for "njd", an image the red rule would change
C11_Witness ==
  /\ Returned("_apply_post_quant_fix")
  /\ arg.team = "njd"
  /\ \E i \in 1..Len(arg.img.px) : fix_red(arg.img.px[i]) # arg.img.px[i]
  /\ ret = arg.img

\* C12: process_logo_perceptual of the solid red image (255,0,0,255) with team
\* "NJD" (rule red), size 20 and no dithering returns 20 x 20 pixels that are
\* all exactly (255,0,0)
C12_SolidRedStaysRed ==
  /\ Returned("process_logo_perceptual")
  /\ arg.img = SolidRed
  /\ arg.team = "NJD"
  /\ arg.size = DefaultSize
  /\ ~arg.dither
  => /\ ret.w = DefaultSize /\ ret.h = DefaultSize
     /\ Len(ret.px) = DefaultSize * DefaultSize
     /\ Solid(ret, <<255, 0, 0>>)

\* that call returned
C12_Witness ==
  /\ Returned("process_logo_perceptual")
  /\ arg.img = SolidRed
  /\ arg.team = "NJD"
  /\ arg.size = DefaultSize
  /\ ~arg.dither
  /\ ret.px[DefaultSize * DefaultSize] = <<255, 0, 0>>


\* the logos of the run whose handling was completed, in processing order
HandledSet == {batch.handled[j] : j \in 1..Len(batch.handled)}

\* C13: in build_logos.main a failure while one logo is handled is caught (no
\* exception leaves main from the handling of a logo), the logo is skipped (no
\* .rgb565 or .png file is written for it and the manifest gets no entry for
\* it) and, when the batch is over, the manifest holds exactly the logos that
\* were handled without failure, in processing order
C13_FailedLogoSkipped ==
  /\ batch.raised_in = 0
  /\ \A k \in batch.failed :
       /\ \A f \in batch.written : f[1] # k
       /\ k \notin HandledSet
  /\ batch.pc = "done" =>
       /\ Len(batch.manifest_file) = Len(batch.handled)
       /\ HandledSet = (1..batch.item) \ batch.failed
       /\ \A j \in 1..Len(batch.handled), k \in 1..Len(batch.handled) :
            j < k => batch.handled[j] < batch.handled[k]

\* the same of the failures the try statements cover: fetching, rendering and
\* processing the logo
CaughtFailuresSkip ==
  batch.raised = "none" =>
    /\ \A k \in batch.failed :
         /\ \A f \in batch.written : f[1] # k
         /\ k \notin HandledSet
    /\ batch.pc = "done" =>
         /\ Len(batch.manifest_file) = Len(batch.handled)
         /\ HandledSet = (1..batch.item) \ batch.failed

\* an OSError of img_rgb.save leaves main with the .rgb565 file written
FileLeftBehind ==
  /\ batch.raised = "OSError"
  /\ \E k \in batch.failed : <<k, ".rgb565">> \in batch.written

\* the key and the value of iteration n of the palette loops
entry_key(n) == CHOOSE k \in DOMAIN seen_entry(n) : TRUE
entry_value(n) == seen_entry(n)[entry_key(n)]

\* lexicographic order of CIE triples, the order of Python tuples
TripleLess(a, b) ==
  \/ a[1] < b[1]
  \/ a[1] = b[1] /\ a[2] < b[2]
  \/ a[1] = b[1] /\ a[2] = b[2] /\ a[3] < b[3]

\* where the entry of triple k stands when every triple is reachable
KeyIndex(k) == k[1] * 256 + k[2] * 16 + k[3] + 1

\* the palette has one entry per CIE triple some RGB565 value reaches, in
\* strictly ascending order of the triples, and the entry of a triple is the
\* RGB888 value of the first iteration (r5, then g6, then b5 ascending) that
\* reaches it: that iteration has the triple, and no iteration with the triple
\* comes before it
PaletteStructure ==
  /\ Len(sorted_keys) <= 16 * 16 * 16
  /\ DOMAIN palette_input_of = 1..Len(sorted_keys)
  /\ DOMAIN palette_lab_of = 1..Len(sorted_keys)
  /\ \A i \in 1..(Len(sorted_keys) - 1) : TripleLess(sorted_keys[i], sorted_keys[i + 1])
  /\ \A i \in 1..Len(sorted_keys) :
       /\ entry_key(rgb_to_rgb565(palette_input_of[i])) = sorted_keys[i]
       /\ entry_value(rgb_to_rgb565(palette_input_of[i])) = palette_input_of[i]
  /\ \A n \in 0..(32 * 64 * 32 - 1) :
       /\ KeyIndex(entry_key(n)) <= Len(sorted_keys)
       /\ sorted_keys[KeyIndex(entry_key(n))] = entry_key(n)
       /\ rgb_to_rgb565(palette_input_of[KeyIndex(entry_key(n))]) <= n

\* C14: the palette _build_hardware_palette returns holds exactly one entry per
\* distinct reachable CIE triple (at most 4096), the representative of a triple
\* is the first RGB565 value that reaches it in the enumeration order r5, g6,
\* b5 ascending, and the entries are stored in strictly ascending order of
\* their CIE triples
C14_PaletteOnePerTriple == builds > 0 => PaletteStructure

\* the palette was built; iterations 0, 1 and 2 reach the triple (0,0,0) and
\* the entry of the triple is the value of iteration 0
C14_Witness ==
  /\ builds > 0
  /\ palette_cache # 0
  /\ entry_key(1) = entry_key(0)
  /\ entry_value(1) # entry_value(0)
  /\ palette_input_of[KeyIndex(entry_key(1))] = entry_value(0)

\* v << k and v >> k
ShiftLeft(v, k) == v * 2 ^ k
ShiftRight(v, k) == v \div 2 ^ k

\* a | b, bit by bit
RECURSIVE BitOr(_, _)
BitOr(a, b) ==
  IF a = 0 THEN b
  ELSE IF b = 0 THEN a
  ELSE 2 * BitOr(a \div 2, b \div 2) + (IF a % 2 = 1 \/ b % 2 = 1 THEN 1 ELSE 0)

\* (v << (8 - n)) | (v >> shift)
Expanded(v, n, shift) == BitOr(ShiftLeft(v, 8 - n), ShiftRight(v, shift))

\* the RGB888 value of every iteration (r5, g6, b5) of the palette loops is
\* the expansion of its fields, the right shifts being by red, green and blue
ExpandsBy(red, green, blue) ==
  \A r5 \in 0..31, g6 \in 0..63, b5 \in 0..31 :
    entry_value(r5 * 2048 + g6 * 32 + b5) =
      <<Expanded(r5, 5, red), Expanded(g6, 6, green), Expanded(b5, 5, blue)>>

ExpandsByWidth == ExpandsBy(5, 6, 5)
ExpandsByReplication == ExpandsBy(2 * 5 - 8, 2 * 6 - 8, 2 * 5 - 8)

\* C15 as stated: palette construction expands every n-bit channel value v_n
\* (n = 5 for red and blue, n = 6 for green) to 8 bits as
\* v8 = (v_n << (8-n)) | (v_n >> n)
C15_ExpandShiftByWidth == builds > 0 => ExpandsByWidth

\* C15 as amended: palette construction expands every n-bit channel value v_n
\* to 8 bits as v8 = (v_n << (8-n)) | (v_n >> (2n-8)), the high 8-n bits of
\* v_n replicated into the low bits
C15_ExpandBitReplication == builds > 0 => ExpandsByReplication

\* the palette was built; its second entry (0,0,57) is the expansion of the
\* blue field 7, 56 | 1, and its last entry is (255,255,255)
C15_Witness ==
  /\ builds > 0
  /\ palette_input_of[2] = <<0, 0, Expanded(7, 5, 2)>>
  /\ Expanded(7, 5, 2) = 57
  /\ Expanded(7, 5, 5) = 56
  /\ palette_input_of[Len(sorted_keys)] = <<255, 255, 255>>

\* _apply_post_quant_fix returned for a team of rule
Fixed(rule) == Returned("_apply_post_quant_fix") /\ rule_of(arg.team) = rule

\* the image returned has the size of the image given
SameShape ==
  ret.w = arg.img.w /\ ret.h = arg.img.h /\ Len(ret.px) = Len(arg.img.px)

\* every channel of p is at least 150
AllAtLeast150(p) == p[1] >= 150 /\ p[2] >= 150 /\ p[3] >= 150

Warm(p) == p[1] >= 70 /\ p[1] - p[2] > 15 /\ p[1] - p[3] > 15
Pink(p) == p[1] >= 80 /\ p[3] >= 40 /\ p[1] > p[3]
GreenDominant(p) ==
  p[2] >= p[1] /\ p[2] >= p[3] /\ p[1] + p[2] + p[3] > 15 /\ ~AllAtLeast150(p)

\* C16: under rule red a pixel with R >= 70, R - G > 15 and R - B > 15 becomes
\* (R,0,0) when min(R,G,B) < 150 and (255,255,255) when min(R,G,B) >= 150;
\* every other pixel is unchanged; R changes only by the white override
C16_RedRuleExact ==
  Fixed("red") =>
    /\ SameShape
    /\ \A i \in 1..Len(arg.img.px) :
         /\ Warm(arg.img.px[i]) /\ ~AllAtLeast150(arg.img.px[i])
              => ret.px[i] = <<arg.img.px[i][1], 0, 0>>
         /\ Warm(arg.img.px[i]) /\ AllAtLeast150(arg.img.px[i])
              => ret.px[i] = <<255, 255, 255>>
         /\ ~Warm(arg.img.px[i]) => ret.px[i] = arg.img.px[i]
         /\ ret.px[i][1] # arg.img.px[i][1]
              => Warm(arg.img.px[i]) /\ AllAtLeast150(arg.img.px[i])

\* rule red turned (70,54,0) into (70,0,0), or (166,150,150) into white
C16_Witness ==
  /\ Fixed("red")
  /\ \/ arg.img.px[1] = <<70, 54, 0>> /\ ret.px[1] = <<70, 0, 0>>
     \/ arg.img.px[1] = <<166, 150, 150>> /\ ret.px[1] = <<255, 255, 255>>

\* C17: under rule orange a pixel with R >= 80, B >= 40 and R > B becomes
\* (R,G,0) when min(R,G,B) < 150 and (255,255,255) when min(R,G,B) >= 150;
\* every other pixel is unchanged; R and G change only by the white override
C17_OrangeRuleExact ==
  Fixed("orange") =>
    /\ SameShape
    /\ \A i \in 1..Len(arg.img.px) :
         /\ Pink(arg.img.px[i]) /\ ~AllAtLeast150(arg.img.px[i])
              => ret.px[i] = <<arg.img.px[i][1], arg.img.px[i][2], 0>>
         /\ Pink(arg.img.px[i]) /\ AllAtLeast150(arg.img.px[i])
              => ret.px[i] = <<255, 255, 255>>
         /\ ~Pink(arg.img.px[i]) => ret.px[i] = arg.img.px[i]
         /\ ret.px[i][1] # arg.img.px[i][1] \/ ret.px[i][2] # arg.img.px[i][2]
              => Pink(arg.img.px[i]) /\ AllAtLeast150(arg.img.px[i])

\* rule orange turned (80,55,40) into (80,55,0)
C17_Witness ==
  /\ Fixed("orange")
  /\ arg.img.px[1] = <<80, 55, 40>>
  /\ ret.px[1] = <<80, 55, 0>>

\* squared CIELAB distance of the reference RGB (0,146,70) to palette entry j
GreenDistance(j) == dist2(pixel_lab(ITA_GREEN), palette_lab_of[j])

\* the palette entries at the least distance from the reference RGB, found by
\* going through the whole palette
NearestGreens ==
  LET least == SetMin({GreenDistance(j) : j \in 1..Len(sorted_keys)})
  IN  {palette_input_of[j] : j \in {k \in 1..Len(sorted_keys) : GreenDistance(k) = least}}

\* C18: under rule green_boost exactly the pixels with G >= R, G >= B (ties
\* and grays included), R + G + B > 15 and min(R,G,B) < 150 are replaced, all
\* by one fixed reference green, the palette entry nearest in CIELAB to
\* (0,146,70); every other pixel is unchanged; the reference green is the same
\* on every call
C18_GreenBoostExact ==
  /\ Cardinality(NearestGreens) = 1
  /\ Fixed("green_boost") =>
       /\ SameShape
       /\ \A i \in 1..Len(arg.img.px) :
            /\ GreenDominant(arg.img.px[i]) => ret.px[i] \in NearestGreens
            /\ ~GreenDominant(arg.img.px[i]) => ret.px[i] = arg.img.px[i]

\* rule green_boost replaced the gray (80,80,80) by the reference green
C18_Witness ==
  /\ Fixed("green_boost")
  /\ arg.img.px[1] = <<80, 80, 80>>
  /\ ret.px[1] \in NearestGreens
  /\ ret.px[1] # arg.img.px[1]

\* the loops of quantize_perceptual_dithered are running
Dithering == pc = "dither"

\* the pixel the next iteration finalises is forced to black or white
Overridden ==
  \/ lab[pos + 1][1] < 500
  \/ lab[pos + 1][1] > 9500 /\ Abs(lab[pos + 1][2]) < 500 /\ Abs(lab[pos + 1][3]) < 500

\* sixteenths of the error the pixel at 1-based index j receives from the
\* pixel at 0-based position pos, by their coordinates in the image
KernelWeight(j) ==
  LET x == pos % img.w
      y == pos \div img.w
      jx == (j - 1) % img.w
      jy == (j - 1) \div img.w
  IN  IF jy = y /\ jx = x + 1 THEN 7
      ELSE IF jy = y + 1 /\ jx = x - 1 THEN 3
      ELSE IF jy = y + 1 /\ jx = x THEN 5
      ELSE IF jy = y + 1 /\ jx = x + 1 THEN 1
      ELSE 0

\* the CIELAB value of the palette entry whose RGB value is px
entry_lab(px) == palette_lab_of[KeyIndex(entry_key(rgb_to_rgb565(px)))]

\* one iteration: the pixel at pos, the next in row-major order, is written
\* and no other; an overridden pixel is black or white and leaves the buffer
\* alone; a matched pixel adds its scaled error to its four neighbours inside
\* the image by the weights 7, 3, 5, 1 and to no other pixel, so to no pixel
\* at or before pos
DitherIteration ==
  /\ pos' = pos + 1
  /\ pos < img.w * img.h
  /\ \A j \in 1..Len(result) : j # pos + 1 => result'[j] = result[j]
  /\ IF Overridden
       THEN /\ result'[pos + 1] \in {BLACK, WHITE}
            /\ lab' = lab
       ELSE /\ result'[pos + 1] \in achievable_colors
            /\ \A j \in 1..Len(lab) :
                 lab'[j] = AddLab(lab[j],
                                  error_share(lab[pos + 1], entry_lab(result'[pos + 1]),
                                              arg.strength, KernelWeight(j)))
  /\ \A j \in 1..(pos + 1) : lab'[j] = lab[j]
  /\ arg' = arg
  /\ img' = img

\* C19: quantize_perceptual_dithered finalises the pixels in row-major order,
\* each exactly once, and returns after height * width iterations; the scaled
\* error of a matched pixel goes only to the right (7/16), below-left (3/16),
\* below (5/16) and below-right (1/16) neighbours inside the image, never to a
\* finalised pixel nor to the caller's image; an overridden pixel diffuses none
C19_DitherRowMajor ==
  /\ [](Dithering => /\ pos \in 0..(img.w * img.h)
                     /\ Len(result) = img.w * img.h
                     /\ Len(lab) = img.w * img.h
                     /\ img = arg.img
                     /\ lab \in [1..Len(lab) -> LabRange \X LabRange \X LabRange]
                     /\ \A j \in (pos + 1)..Len(result) : result[j] = BLACK)
  /\ [][Dithering /\ Dithering' => DitherIteration]_vars
  /\ [][Dithering /\ ~Dithering'
          => /\ pos = img.w * img.h
             /\ ret' = RgbImage(arg.img.w, arg.img.h, result)
             /\ arg' = arg]_vars
  /\ Dithering ~> Returned("quantize_perceptual_dithered")

\* the last pixel of a 2 x 2 image is about to be finalised; the first pixel
\* was matched and the last has received error
C19_Witness ==
  /\ Dithering
  /\ img.w = 2 /\ img.h = 2
  /\ pos = 3
  /\ arg.strength = DefaultStrength
  /\ result[1] \notin {BLACK, WHITE}
  /\ lab[4] # lab_of(img.px[4])

\* C20: _apply_post_quant_fix is idempotent for every rule, every image and
\* every subject: given the image it returned and the same subject, it
\* returns that image
C20_PostFixIdempotent ==
  /\ Returned("_apply_post_quant_fix")
  /\ src = "_apply_post_quant_fix"
  => ret = arg.img

\* the correction of rule green_boost was given the reference green it had
\* written and returned it
C20_Witness ==
  /\ Fixed("green_boost")
  /\ src = "_apply_post_quant_fix"
  /\ arg.img.px[1] = <<0, 142, 57>>
  /\ ret = arg.img

\* both overrides at once: L < 5 together with L > 95, |a| < 5, |b| < 5
BothOverrides(p) ==
  p[1] < 500 /\ p[1] > 9500 /\ Abs(p[2]) < 500 /\ Abs(p[3]) < 500

\* C21: with strength 0 quantize_perceptual_dithered returns, pixel for pixel,
\* the image quantize_perceptual returns for the same input; no CIELAB value
\* either path tests is near-black and near-white at once
C21_ZeroStrengthIsUndithered ==
  /\ Returned("quantize_perceptual_dithered") /\ arg.strength = 0
       => ret = quantize_perceptual(build_hardware_palette, arg.img)
  /\ pc = "dither" => \A i \in 1..Len(lab) : ~BothOverrides(lab[i])
  /\ pc = "quantize" => \A i \in 1..Len(img.px) : ~BothOverrides(lab_of(img.px[i]))

\* the dithered quantizer returned, for strength 0, an image of MaxPixels
\* pixels whose first two pixels were matched to palette entries other than
\* black and white
C21_Witness ==
  /\ Returned("quantize_perceptual_dithered")
  /\ arg.strength = 0
  /\ Len(arg.img.px) = MaxPixels
  /\ ret.px[1] \notin {BLACK, WHITE}
  /\ ret.px[2] \notin {BLACK, WHITE}
  /\ ret = quantize_perceptual(build_hardware_palette, arg.img)

=========================================================================
